---- MODULE Spec2Model ----
(***************************************************************************)
(* Model of backend/app.py: the OAuth authorization-code broker.           *)
(*   GET  /start-oauth  start_oauth      issues a state nonce              *)
(*   GET  /callback     handle_callback  validates state and fields        *)
(*   POST /callback     handle_callback  validates, exchanges the code     *)
(*                                       for a refresh token and upserts   *)
(*                                       the AmazonSeller row              *)
(* Python None is the string None below; it is in no domain of real        *)
(* strings.  A POST /callback that passed validation is a request in       *)
(* flight: it blocks on the provider (pc "token") and then holds a looked  *)
(* up ORM object until its commit (pc "commit"); other requests run in     *)
(* between.                                                                *)
(***************************************************************************)
EXTENDS Integers, Sequences, FiniteSets, TLC

\* ---------------------------------------------------------------- bounds
MaxNonce == 2
MaxRequests == 3
MaxInFlight == 2
MaxRefreshCalls == 2

\* ---------------------------------------------------------------- values
None == "<None>"

Sessions == {"S1", "S2"}

\* variant: generate_state returns the same value on every call
UuidFixed(k) == "uuid-1"

\* generate_state: the k-th uuid4 drawn by the process, rendered as a string
Uuid(k) == "uuid-" \o ToString(k)

Nonces == {Uuid(k) : k \in 1..MaxNonce}

\* request parameters: absent (None), empty, or a value
AuthCodes == {None, "", "abc"}
PartnerIds == {None, "P1", "P2"}
StateArgs == {None, "", "forged"} \cup Nonces

RefreshTokens == {None, "RT1", "RT2"}

LWA_APP_ID == "amzn1.app"
REDIRECT_URI == "https://app/callback"

\* Python truthiness of an optional string: `not x`
Falsy(x) == x = None \/ x = ""

\* ------------------------------------------------------------- responses
NoResp == [status |-> 0, error |-> None, message |-> None,
           auth_code |-> None, details |-> None, location_state |-> None]

JsonError(msg, code) == [NoResp EXCEPT !.status = code, !.error = msg]

ErrorDetails(msg, details) ==
    [NoResp EXCEPT !.status = 400, !.error = msg, !.details = details]

\* variant: the code is not echoed
GetSuccessNoCode(auth_code) ==
    [NoResp EXCEPT !.status = 200, !.message = "GET request successful"]

GetSuccess(auth_code) ==
    [NoResp EXCEPT !.status = 200, !.message = "GET request successful",
                   !.auth_code = auth_code]

PostSuccess ==
    [NoResp EXCEPT !.status = 200, !.message = "Authorization successful"]

\* redirect(amazon_auth_url): the URL is kept by its state query parameter
Redirect(state) == [NoResp EXCEPT !.status = 302, !.location_state = state]

\* `except Exception as e`: the route's catch-all
InternalError(exc) == JsonError("An error occurred: " \o exc, 500)

\* the view returned None: the framework's own 500 page, raised outside the
\* route's try block, a body that is no JSON and has no 'error' key
ViewReturnedNone == [NoResp EXCEPT !.status = 500]

\* ------------------------------------------------- provider token answers
\* requests.post(token_url, ...) returns a response or raises
NoTokenResponse ==
    [raised |-> FALSE, status_code |-> 0, is_json |-> FALSE,
     refresh_token |-> None, payload |-> None]

TokenResponses ==
    {[NoTokenResponse EXCEPT !.status_code = 200, !.is_json = TRUE,
                             !.refresh_token = t, !.payload = "token_data"]
        : t \in RefreshTokens}
    \cup {[NoTokenResponse EXCEPT !.status_code = c, !.is_json = TRUE,
                                  !.payload = "invalid_grant"] : c \in {400, 500}}
    \cup {[NoTokenResponse EXCEPT !.status_code = c, !.payload = "<html>"]
            : c \in {200, 502}}
    \cup {[NoTokenResponse EXCEPT !.raised = TRUE]}

\* ------------------------------------------------- locals of one request
\* received: the clock value at which the request arrived; parsed: the
\* handler read code, state and selling_partner_id from the request;
\* token_posts: the calls of requests.post(token_url, ...) it has made
NoSeller == [id |-> 0, refresh_token |-> None]

NoRequest ==
    [route |-> None, method |-> None, sess |-> None, pc |-> "idle",
     received |-> 0, parsed |-> FALSE,
     auth_code |-> None, state |-> None, selling_partner_id |-> None,
     session_state |-> None, token_sent |-> FALSE, token_posts |-> 0,
     token_response |-> NoTokenResponse, existing_seller |-> NoSeller,
     resp |-> NoResp]

VARIABLES
    secret_key,   \* app.secret_key is set (FLASK_SECRET_KEY)
    session,      \* session['oauth_state'] of each caller session
    uuids,        \* number of uuid4 values drawn so far
    store,        \* table amazon_sellers: rows in primary-key order
    now,          \* logical clock: requests received so far
    inflight,     \* POST /callback requests between validation and response
    last,         \* the request answered most recently, with its response
    refresh_call  \* the current call of refresh_access_token, if any

vars == <<secret_key, session, uuids, store, now, inflight, last, refresh_call>>


\* ------------------------------------------------------------ the table
\* AmazonSeller: selling_partner_id unique, refresh_token NOT NULL,
\* created_at defaults to the time of the INSERT; id is the row's position.
Row(pid, token, t) ==
    [selling_partner_id |-> pid, refresh_token |-> token, created_at |-> t]

RowsOf(rows, pid) == {i \in 1..Len(rows) : rows[i].selling_partner_id = pid}

\* variant: the column carries no unique constraint
NoUniqueConstraint(rows, pid) == FALSE

\* unique=True on selling_partner_id: an INSERT of a stored pid is refused
UniqueViolation(rows, pid) == RowsOf(rows, pid) # {}

\* variant: the column is nullable
NullableToken(token) == FALSE

\* nullable=False on refresh_token
NotNullViolation(token) == token = None

\* AmazonSeller.query.filter_by(selling_partner_id=pid).first()
FirstSeller(rows, pid) ==
    IF RowsOf(rows, pid) = {} THEN NoSeller
    ELSE LET i == CHOOSE i \in RowsOf(rows, pid) :
                      \A j \in RowsOf(rows, pid) : i <= j
         IN  [id |-> i, refresh_token |-> rows[i].refresh_token]

\* variant: one AmazonSeller object is reused, so a second partner's insert
\* rewrites the row added last
InsertSellerReusingObject(rows, pid, token, t) ==
    IF rows = << >> THEN Append(rows, Row(pid, token, t))
    ELSE [rows EXCEPT ![Len(rows)] = Row(pid, token, t)]

\* db.session.add(new_seller) flushed by the commit
InsertSeller(rows, pid, token, t) == Append(rows, Row(pid, token, t))

\* variant: the row is replaced by a new one, its created_at not carried over
ReplaceSeller(rows, id, token) ==
    [rows EXCEPT ![id] = Row(rows[id].selling_partner_id, token, 0)]

\* existing_seller.refresh_token = refresh_token flushed by the commit:
\* UPDATE amazon_sellers SET refresh_token = token WHERE id = id
UpdateSeller(rows, id, token) == [rows EXCEPT ![id].refresh_token = token]

\* ------------------------------------------------------- handle_callback
\* variant: the state is never compared
StateMismatchNever(state, session_state) == FALSE

\* variant: the comparison is skipped while no nonce is bound
StateMismatchWhenBound(state, session_state) ==
    session_state # None /\ state # session_state

\* `if state != session_state` (both may be None)
StateMismatch(state, session_state) == state # session_state

\* variant: the presence of state is not checked
MissingCodeOrPartner(auth_code, state, pid) == Falsy(auth_code) \/ Falsy(pid)

\* `if not auth_code or not state or not selling_partner_id`
MissingParams(auth_code, state, pid) ==
    Falsy(auth_code) \/ Falsy(state) \/ Falsy(pid)

\* variant: required fields are checked before the state
ValidateFieldsFirst(auth_code, state, pid, session_state) ==
    IF MissingParams(auth_code, state, pid) THEN "missing"
    ELSE IF StateMismatch(state, session_state) THEN "state"
    ELSE "ok"

\* the two checks in the order the handler makes them
Validate(auth_code, state, pid, session_state) ==
    IF StateMismatch(state, session_state) THEN "state"
    ELSE IF MissingParams(auth_code, state, pid) THEN "missing"
    ELSE "ok"

\* variant: only server errors count as a failed exchange
ExchangeFailedServerError(tr) == tr.status_code >= 500

\* `if token_response.status_code != 200`
ExchangeFailed(tr) == tr.status_code # 200

Locals(method, s, auth_code, state, pid) ==
    [NoRequest EXCEPT !.route = "/callback", !.method = method, !.sess = s,
                      !.pc = "recv", !.received = now + 1, !.parsed = TRUE,
                      !.auth_code = auth_code, !.state = state,
                      !.selling_partner_id = pid,
                      !.session_state = session[s]]

Done(req, resp) == [req EXCEPT !.pc = "done", !.resp = resp]

FreeSlots == {r \in 1..MaxInFlight : inflight[r].pc = "idle"}

\* ------------------------------------------------------------- start_oauth
\* variant: session.setdefault('oauth_state', state) keeps a pending nonce
BindStateIfUnset(sess_map, s, state) ==
    IF sess_map[s] = None THEN [sess_map EXCEPT ![s] = state] ELSE sess_map

\* session['oauth_state'] = state
BindState(sess_map, s, state) == [sess_map EXCEPT ![s] = state]

StartOAuth(s) ==
    /\ now < MaxRequests
    /\ now' = now + 1
    /\ IF secret_key
       THEN /\ uuids < MaxNonce
            /\ uuids' = uuids + 1
            /\ session' = BindState(session, s, Uuid(uuids + 1))
            /\ last' = Done([NoRequest EXCEPT !.route = "/start-oauth",
                                              !.method = "GET", !.sess = s,
                                              !.received = now + 1],
                            Redirect(Uuid(uuids + 1)))
       ELSE \* the session write raises: no secret key was set
            /\ UNCHANGED <<uuids, session>>
            /\ last' = Done([NoRequest EXCEPT !.route = "/start-oauth",
                                              !.method = "GET", !.sess = s,
                                              !.received = now + 1],
                            InternalError("RuntimeError"))
    /\ UNCHANGED <<refresh_call, secret_key, store, inflight>>

\* variant: the handler pops the bound nonce before it compares
CallbackGetPopsState(s, auth_code, state, pid) ==
    LET req == Locals("GET", s, auth_code, state, pid)
        v == Validate(auth_code, state, pid, session[s])
    IN  /\ now < MaxRequests
        /\ now' = now + 1
        /\ session' = [session EXCEPT ![s] = None]
        /\ last' = Done(req,
              IF v = "state"
              THEN JsonError("Invalid state parameter in GET request", 400)
              ELSE IF v = "missing"
              THEN JsonError("Missing required parameters in GET request", 400)
              ELSE GetSuccess(auth_code))
        /\ UNCHANGED <<refresh_call, secret_key, uuids, store, inflight>>

\* GET /callback
CallbackGet(s, auth_code, state, pid) ==
    LET req == Locals("GET", s, auth_code, state, pid)
        v == Validate(auth_code, state, pid, session[s])
    IN  /\ now < MaxRequests
        /\ now' = now + 1
        /\ last' = Done(req,
              IF v = "state"
              THEN JsonError("Invalid state parameter in GET request", 400)
              ELSE IF v = "missing"
              THEN JsonError("Missing required parameters in GET request", 400)
              ELSE GetSuccess(auth_code))
        /\ UNCHANGED <<refresh_call, secret_key, session, uuids, store, inflight>>

\* variant: a validated POST pops the bound nonce
CallbackPostConsumes(s, auth_code, state, pid) ==
    LET req == Locals("POST", s, auth_code, state, pid)
        v == Validate(auth_code, state, pid, session[s])
    IN  /\ now < MaxRequests
        /\ now' = now + 1
        /\ IF v = "state"
           THEN /\ last' = Done(req,
                     JsonError("Invalid state parameter in POST request", 400))
                /\ UNCHANGED <<inflight, session>>
           ELSE IF v = "missing"
           THEN /\ last' = Done(req,
                     JsonError("Missing required parameters in POST request", 400))
                /\ UNCHANGED <<inflight, session>>
           ELSE /\ FreeSlots # {}
                /\ LET r == CHOOSE r \in FreeSlots : \A q \in FreeSlots : r <= q
                   IN  inflight' = [inflight EXCEPT ![r] =
                           [req EXCEPT !.pc = "token", !.token_sent = TRUE,
                                       !.token_posts = 1]]
                /\ session' = [session EXCEPT ![s] = None]
                /\ UNCHANGED last
        /\ UNCHANGED <<refresh_call, secret_key, uuids, store>>

\* POST /callback up to the provider call (requests.post blocks)
CallbackPost(s, auth_code, state, pid) ==
    LET req == Locals("POST", s, auth_code, state, pid)
        v == Validate(auth_code, state, pid, session[s])
    IN  /\ now < MaxRequests
        /\ now' = now + 1
        /\ IF v = "state"
           THEN /\ last' = Done(req,
                     JsonError("Invalid state parameter in POST request", 400))
                /\ UNCHANGED inflight
           ELSE IF v = "missing"
           THEN /\ last' = Done(req,
                     JsonError("Missing required parameters in POST request", 400))
                /\ UNCHANGED inflight
           ELSE /\ FreeSlots # {}
                /\ LET r == CHOOSE r \in FreeSlots : \A q \in FreeSlots : r <= q
                   IN  inflight' = [inflight EXCEPT ![r] =
                           [req EXCEPT !.pc = "token", !.token_sent = TRUE,
                                       !.token_posts = 1]]
                /\ UNCHANGED last
        /\ UNCHANGED <<refresh_call, secret_key, session, uuids, store>>

\* POST /callback whose body is not a JSON object: request.json or
\* data.get raises before any parameter is read
CallbackPostBadBody(s) ==
    /\ now < MaxRequests
    /\ now' = now + 1
    /\ last' = Done([NoRequest EXCEPT !.route = "/callback", !.method = "POST",
                                      !.sess = s, !.received = now + 1],
                    InternalError("BadRequest"))
    /\ UNCHANGED <<refresh_call, secret_key, session, uuids, store, inflight>>

\* HEAD /callback (the route accepts it along with GET): neither method
\* branch is taken, no argument and no session key is read, and the view
\* ends without a return
CallbackHead(s) ==
    /\ now < MaxRequests
    /\ now' = now + 1
    /\ last' = Done([NoRequest EXCEPT !.route = "/callback", !.method = "HEAD",
                                      !.sess = s, !.received = now + 1],
                    ViewReturnedNone)
    /\ UNCHANGED <<refresh_call, secret_key, session, uuids, store, inflight>>

\* POST /webhook: the body is logged; body_ok = FALSE: request.json raises
Webhook(s, body_ok) ==
    /\ now < MaxRequests
    /\ now' = now + 1
    /\ last' = Done([NoRequest EXCEPT !.route = "/webhook", !.method = "POST",
                                      !.sess = s, !.received = now + 1],
                    IF body_ok
                    THEN [NoResp EXCEPT !.status = 200,
                              !.message = "Webhook received successfully"]
                    ELSE InternalError("BadRequest"))
    /\ UNCHANGED <<refresh_call, secret_key, session, uuids, store, inflight>>

\* GET /: the health check
Home(s) ==
    /\ now < MaxRequests
    /\ now' = now + 1
    /\ last' = Done([NoRequest EXCEPT !.route = "/", !.method = "GET",
                                      !.sess = s, !.received = now + 1],
                    [NoResp EXCEPT !.status = 200,
                        !.message = "Welcome to the Flask App! API is running."])
    /\ UNCHANGED <<refresh_call, secret_key, session, uuids, store, inflight>>

\* variant: a transport error is retried once before the request fails
TokenResponseRetries(r, tr, db_ok) ==
    LET req == [inflight[r] EXCEPT !.token_response = tr]
        finish(resp) == /\ last' = Done(req, resp)
                        /\ inflight' = [inflight EXCEPT ![r] = NoRequest]
    IN  /\ inflight[r].pc = "token"
        /\ IF tr.raised /\ inflight[r].token_posts < 2
           THEN /\ inflight' = [inflight EXCEPT ![r].token_posts = @ + 1]
                /\ UNCHANGED last
           ELSE IF tr.raised
           THEN finish(InternalError("ConnectionError"))
           ELSE IF ~tr.is_json
           THEN finish(InternalError("JSONDecodeError"))
           ELSE IF ExchangeFailed(tr)
           THEN finish(ErrorDetails("Failed to exchange authorization code",
                                    tr.payload))
           ELSE IF ~db_ok
           THEN finish(InternalError("OperationalError"))
           ELSE /\ inflight' = [inflight EXCEPT ![r] =
                       [req EXCEPT !.pc = "commit",
                                   !.existing_seller =
                                       FirstSeller(store, req.selling_partner_id)]]
                /\ UNCHANGED last
        /\ UNCHANGED <<refresh_call, secret_key, session, uuids, store, now>>

\* the provider answers (or the transport raises); on 200 the handler goes
\* on to look the seller up.  db_ok = FALSE: the query raises.
TokenResponse(r, tr, db_ok) ==
    LET req == [inflight[r] EXCEPT !.token_response = tr]
        finish(resp) == /\ last' = Done(req, resp)
                        /\ inflight' = [inflight EXCEPT ![r] = NoRequest]
    IN  /\ inflight[r].pc = "token"
        /\ IF tr.raised
           THEN finish(InternalError("ConnectionError"))
           ELSE IF ~tr.is_json
           THEN finish(InternalError("JSONDecodeError"))
           ELSE IF ExchangeFailed(tr)
           THEN finish(ErrorDetails("Failed to exchange authorization code",
                                    tr.payload))
           ELSE IF ~db_ok
           THEN finish(InternalError("OperationalError"))
           ELSE /\ inflight' = [inflight EXCEPT ![r] =
                       [req EXCEPT !.pc = "commit",
                                   !.existing_seller =
                                       FirstSeller(store, req.selling_partner_id)]]
                /\ UNCHANGED last
        /\ UNCHANGED <<refresh_call, secret_key, session, uuids, store, now>>

\* variant: a refused INSERT leaves the request waiting, never answered
CommitHangsOnError(r, db_ok) ==
    LET req == inflight[r]
        pid == req.selling_partner_id
        token == req.token_response.refresh_token
        seller == req.existing_seller
        finish(resp) == /\ last' = Done(req, resp)
                        /\ inflight' = [inflight EXCEPT ![r] = NoRequest]
    IN  /\ req.pc = "commit"
        /\ IF ~db_ok
           THEN finish(InternalError("OperationalError")) /\ UNCHANGED store
           ELSE IF seller.id = 0
           THEN IF NotNullViolation(token) \/ UniqueViolation(store, pid)
                THEN /\ inflight' = [inflight EXCEPT ![r].pc = "failed"]
                     /\ UNCHANGED <<store, last>>
                ELSE /\ store' = InsertSeller(store, pid, token, now)
                     /\ finish(PostSuccess)
           ELSE IF token = seller.refresh_token
           THEN finish(PostSuccess) /\ UNCHANGED store
           ELSE IF NotNullViolation(token)
           THEN finish(InternalError("IntegrityError")) /\ UNCHANGED store
           ELSE /\ store' = UpdateSeller(store, seller.id, token)
                /\ finish(PostSuccess)
        /\ UNCHANGED <<refresh_call, secret_key, session, uuids, now>>

\* db.session.commit(): flushes the pending INSERT or UPDATE
Commit(r, db_ok) ==
    LET req == inflight[r]
        pid == req.selling_partner_id
        token == req.token_response.refresh_token
        seller == req.existing_seller
        finish(resp) == /\ last' = Done(req, resp)
                        /\ inflight' = [inflight EXCEPT ![r] = NoRequest]
    IN  /\ req.pc = "commit"
        /\ IF ~db_ok
           THEN finish(InternalError("OperationalError")) /\ UNCHANGED store
           ELSE IF seller.id = 0
           THEN IF NotNullViolation(token) \/ UniqueViolation(store, pid)
                THEN finish(InternalError("IntegrityError")) /\ UNCHANGED store
                ELSE /\ store' = InsertSeller(store, pid, token, now)
                     /\ finish(PostSuccess)
           ELSE IF token = seller.refresh_token
           THEN \* no net change on the loaded object: no UPDATE is emitted
                finish(PostSuccess) /\ UNCHANGED store
           ELSE IF NotNullViolation(token)
           THEN finish(InternalError("IntegrityError")) /\ UNCHANGED store
           ELSE /\ store' = UpdateSeller(store, seller.id, token)
                /\ finish(PostSuccess)
        /\ UNCHANGED <<refresh_call, secret_key, session, uuids, now>>

\* ---------------------------------------------------- refresh_access_token
\* the provider's answers to the refresh_token grant
NoRefreshResponse ==
    [raised |-> FALSE, status_code |-> 0, is_json |-> FALSE,
     access_token |-> None, payload |-> None]

RefreshResponses ==
    {[NoRefreshResponse EXCEPT !.status_code = 200, !.is_json = TRUE,
                               !.access_token = t, !.payload = "token_data"]
        : t \in {None, "AT1", "AT2"}}
    \cup {[NoRefreshResponse EXCEPT !.status_code = c, !.is_json = TRUE,
                                    !.payload = "invalid_grant"] : c \in {400, 500}}
    \cup {[NoRefreshResponse EXCEPT !.status_code = c, !.payload = "<html>"]
            : c \in {200, 502}}
    \cup {[NoRefreshResponse EXCEPT !.raised = TRUE]}

NoRefreshCall ==
    [pc |-> "idle", calls |-> 0, refresh_token |-> None,
     response |-> NoRefreshResponse, raised |-> FALSE, value |-> None]

\* variant: only requests' own exceptions are caught, a body that is not
\* JSON makes response.json() raise to the caller
RefreshOutcomeUncaught(tr) ==
    IF tr.raised THEN [raised |-> FALSE, value |-> None]
    ELSE IF ~tr.is_json THEN [raised |-> TRUE, value |-> None]
    ELSE IF tr.status_code # 200 THEN [raised |-> FALSE, value |-> None]
    ELSE [raised |-> FALSE, value |-> tr.access_token]

\* what the call returns on the provider's answer tr: requests.post or
\* response.json() raising is caught by `except Exception` (return None)
RefreshOutcome(tr) ==
    IF tr.raised THEN [raised |-> FALSE, value |-> None]
    ELSE IF tr.status_code # 200
    THEN \* logging.error(... response.json()) may raise; None either way
         [raised |-> FALSE, value |-> None]
    ELSE IF ~tr.is_json THEN [raised |-> FALSE, value |-> None]
    ELSE [raised |-> FALSE, value |-> tr.access_token]

\* refresh_access_token(token) up to requests.post
RefreshPost(token) ==
    /\ refresh_call.pc \in {"idle", "done"}
    /\ refresh_call.calls < MaxRefreshCalls
    /\ refresh_call' = [NoRefreshCall EXCEPT !.pc = "post",
                            !.calls = refresh_call.calls + 1,
                            !.refresh_token = token]
    /\ UNCHANGED <<secret_key, session, uuids, store, now, inflight, last>>

\* the provider answers and the call returns
RefreshReturn(tr) ==
    /\ refresh_call.pc = "post"
    /\ refresh_call' = [refresh_call EXCEPT !.pc = "done", !.response = tr,
                            !.raised = RefreshOutcome(tr).raised,
                            !.value = RefreshOutcome(tr).value]
    /\ UNCHANGED <<secret_key, session, uuids, store, now, inflight, last>>

\* ------------------------------------------------------------------ spec
Init ==
    /\ secret_key \in BOOLEAN
    /\ session = [s \in Sessions |-> None]
    /\ uuids = 0
    /\ store = << >>
    /\ now = 0
    /\ inflight = [r \in 1..MaxInFlight |-> NoRequest]
    /\ last = NoRequest
    /\ refresh_call = NoRefreshCall

Next ==
    \/ \E s \in Sessions : StartOAuth(s)
    \/ \E s \in Sessions, c \in AuthCodes, st \in StateArgs, p \in PartnerIds :
           CallbackGet(s, c, st, p)
    \/ \E s \in Sessions, c \in AuthCodes, st \in StateArgs, p \in PartnerIds :
           CallbackPost(s, c, st, p)
    \/ \E s \in Sessions : CallbackPostBadBody(s)
    \/ \E s \in Sessions : CallbackHead(s)
    \/ \E r \in 1..MaxInFlight, tr \in TokenResponses, ok \in BOOLEAN :
           TokenResponse(r, tr, ok)
    \/ \E r \in 1..MaxInFlight, ok \in BOOLEAN : Commit(r, ok)
    \/ \E s \in Sessions, ok \in BOOLEAN : Webhook(s, ok)
    \/ \E s \in Sessions : Home(s)

Spec == Init /\ [][Next]_vars

\* the provider eventually answers each token request (or the transport
\* raises) and the database eventually commits or raises: both calls block
\* the handler, which has no other way on
FairSpec ==
    /\ Spec
    /\ \A r \in 1..MaxInFlight :
          /\ WF_vars(\E tr \in TokenResponses, ok \in BOOLEAN :
                         TokenResponse(r, tr, ok))
          /\ WF_vars(\E ok \in BOOLEAN : Commit(r, ok))

\* refresh_access_token is called by no route: it is checked as a library
\* function, on every token and every answer of the provider
NextRefresh ==
    \/ \E t \in RefreshTokens : RefreshPost(t)
    \/ \E tr \in RefreshResponses : RefreshReturn(tr)

SpecRefresh == Init /\ [][NextRefresh]_vars

\* ------------------------------------------------------------- properties
\* every request the service holds or has just answered
Answered == {last} \ {NoRequest}
InFlight == {inflight[r] : r \in 1..MaxInFlight} \ {NoRequest}

StateError(req) == "Invalid state parameter in " \o req.method \o " request"
MissingError(req) == "Missing required parameters in " \o req.method \o " request"

\* a GET or POST /callback whose parameters the handler read
IsCallback(req) == req.route = "/callback" /\ req.parsed

\* C1: a GET or POST /callback whose supplied state (absent counts as None)
\* is not equal to the value bound in its session under 'oauth_state' is
\* answered 400 'Invalid state parameter in <method> request', never 200,
\* and it never sends the token request: no request is in flight, with the
\* provider or the store, unless its state equalled the bound value.
C1_StateMismatchRejected ==
    /\ \A req \in Answered :
          IsCallback(req) /\ req.state # req.session_state
          => /\ req.resp.status = 400
             /\ req.resp.error = StateError(req)
             /\ ~req.token_sent
    /\ \A req \in InFlight : req.state = req.session_state

\* a POST carrying another issued nonce than the bound one was rejected
C1_Witness ==
    /\ IsCallback(last) /\ last.method = "POST"
    /\ last.session_state \in Nonces /\ last.state \in Nonces
    /\ last.state # last.session_state
    /\ ~Falsy(last.auth_code) /\ ~Falsy(last.selling_partner_id)
    /\ last.resp = JsonError(StateError(last), 400)

\* C2 as stated: in a session where no nonce is bound, every GET or POST
\* /callback is answered 400 whatever it carries (a request without state
\* included); none sends the token request or gets as far as the store.
C2_UnboundSessionRejects ==
    /\ \A req \in Answered :
          /\ req.route = "/callback" /\ req.method \in {"GET", "POST"}
          /\ session[req.sess] = None
          => req.resp.status = 400 /\ ~req.token_sent
    /\ \A req \in InFlight : req.session_state # None

\* C2 amended: in a session where no nonce is bound, every GET or POST
\* /callback whose parameters the handler could read is answered 400 with
\* the state error or the missing-parameter error, and a POST whose body
\* cannot be read is answered 500 by the route's catch-all; none is answered
\* 200, none sends the token request or gets as far as the store.
C2_UnboundSessionNeverAccepts ==
    /\ \A req \in Answered :
          /\ req.route = "/callback" /\ req.method \in {"GET", "POST"}
          /\ session[req.sess] = None
          => /\ ~req.token_sent
             /\ req.existing_seller = NoSeller
             /\ IF req.parsed
                THEN /\ req.session_state = None
                     /\ req.resp.status = 400
                     /\ req.resp.error \in {StateError(req), MissingError(req)}
                ELSE /\ req.method = "POST"
                     /\ req.resp = InternalError("BadRequest")
    /\ \A req \in InFlight : req.session_state # None

\* code and partner id present, no state sent, nothing bound: rejected
C2_Witness ==
    /\ IsCallback(last) /\ last.session_state = None /\ last.state = None
    /\ last.auth_code = "abc" /\ last.selling_partner_id = "P1"
    /\ session[last.sess] = None
    /\ last.resp.status = 400

\* C3: state validation precedes required-field validation precedes the
\* token exchange: a callback that misses a required field and whose state
\* differs from the bound value is reported as the state error, not as the
\* missing-field error, and the token request is sent only by a request that
\* passed both checks.
C3_CheckOrder ==
    /\ \A req \in Answered :
          /\ IsCallback(req)
          /\ MissingParams(req.auth_code, req.state, req.selling_partner_id)
          /\ req.state # req.session_state
          => req.resp.error = StateError(req)
    /\ \A req \in Answered \cup InFlight :
          req.token_sent
          => /\ req.state = req.session_state
             /\ ~MissingParams(req.auth_code, req.state, req.selling_partner_id)

\* a request without code and with a wrong state got the state error
C3_Witness ==
    /\ IsCallback(last) /\ Falsy(last.auth_code)
    /\ last.session_state \in Nonces /\ last.state = "forged"
    /\ last.resp.error = StateError(last)

\* the step in which request r leaves db.session.commit() (line 182)
CommitStep(r) == inflight[r].pc = "commit" /\ inflight'[r].pc = "idle"

\* the step in which request r gets the provider's answer (line 162)
TokenStep(r) == inflight[r].pc = "token" /\ inflight'[r].pc # "token"

\* C4: a successful exchange for a partner whose record a previous
\* successful exchange left in the store (the record is as this request
\* looked it up), made with a different refresh token, leaves exactly one
\* record for the partner: its refresh_token is the new value, its
\* created_at is the value the first insert set, and no row is added.
C4_SecondExchangeOverwrites ==
    [][\A r \in 1..MaxInFlight :
         LET req == inflight[r]
             pid == req.selling_partner_id
             i == req.existing_seller.id
         IN  /\ CommitStep(r)
             /\ last'.resp = PostSuccess
             /\ i # 0
             /\ store[i].refresh_token = req.existing_seller.refresh_token
             /\ req.token_response.refresh_token # store[i].refresh_token
             => /\ RowsOf(store', pid) = {i}
                /\ store'[i].refresh_token = req.token_response.refresh_token
                /\ store'[i].created_at = store[i].created_at
                /\ Len(store') = Len(store)]_vars

\* the second exchange for a partner has replaced the first refresh token
C4_Witness ==
    /\ last.method = "POST" /\ last.resp = PostSuccess
    /\ last.existing_seller.id # 0
    /\ last.existing_seller.refresh_token # last.token_response.refresh_token
    /\ LET row == store[last.existing_seller.id]
       IN  /\ row.selling_partner_id = last.selling_partner_id
           /\ row.refresh_token = last.token_response.refresh_token
           /\ row.created_at < last.received
    /\ Cardinality(RowsOf(store, last.selling_partner_id)) = 1

\* C5: in every reachable state, under every interleaving of callbacks,
\* the table holds at most one row per selling_partner_id.
C5_OneRecordPerPartner ==
    \A i, j \in 1..Len(store) :
        store[i].selling_partner_id = store[j].selling_partner_id => i = j

\* two exchanges raced to insert the same partner: the second INSERT was
\* refused and one row is stored
C5_Witness ==
    /\ last.method = "POST" /\ last.resp = InternalError("IntegrityError")
    /\ last.existing_seller.id = 0
    /\ last.token_response.refresh_token # None
    /\ Cardinality(RowsOf(store, last.selling_partner_id)) = 1

\* C6: the upsert is atomic for concurrent exchanges of one partner: every
\* POST /callback that passed validation and got a 200 answer with a refresh
\* token completes, unless the database is down, with 200 'Authorization
\* successful', and its commit leaves one row for the partner holding the
\* token it wrote, whatever other exchange ran between its lookup and its
\* commit.
C6_AtomicUpsert ==
    [][\A r \in 1..MaxInFlight :
         LET req == inflight[r]
             pid == req.selling_partner_id
         IN  /\ CommitStep(r)
             /\ req.token_response.refresh_token # None
             /\ last'.resp # InternalError("OperationalError")
             => /\ last'.resp = PostSuccess
                /\ \E i \in 1..Len(store') :
                      /\ RowsOf(store', pid) = {i}
                      /\ store'[i].refresh_token =
                             req.token_response.refresh_token]_vars

\* C7 as stated: when the provider answers the token request with any
\* status other than 200, the request ends at once with 400, an error and
\* the provider's payload under 'details'; it never goes on to the lookup
\* or the commit, and the table is unchanged.
C7_UpstreamFailurePassthrough ==
    [][\A r \in 1..MaxInFlight :
         /\ \A req \in {inflight'[r], last'} :
               /\ ~req.token_response.raised
               /\ req.token_response.status_code \notin {0, 200}
               => /\ req = last'
                  /\ req.resp = ErrorDetails(
                         "Failed to exchange authorization code",
                         req.token_response.payload)
                  /\ req.existing_seller = NoSeller
         /\ TokenStep(r) /\ last'.token_response.status_code # 200
            => store' = store]_vars

\* C7 amended: when the provider answers the token request with a status
\* other than 200, the request ends at once, never goes on to the lookup or
\* the commit, and the table is unchanged: with a JSON payload the answer is
\* 400 with an error and the payload under 'details'; with a body that is
\* no JSON the answer is the catch-all's 500 with an error and no details.
C7_UpstreamFailureAnswered ==
    [][\A r \in 1..MaxInFlight :
         /\ \A req \in {inflight'[r], last'} :
               /\ ~req.token_response.raised
               /\ req.token_response.status_code \notin {0, 200}
               => /\ req = last'
                  /\ req.resp = IF req.token_response.is_json
                                THEN ErrorDetails(
                                         "Failed to exchange authorization code",
                                         req.token_response.payload)
                                ELSE InternalError("JSONDecodeError")
                  /\ req.existing_seller = NoSeller
         /\ TokenStep(r) /\ last'.token_response.status_code # 200
            => store' = store]_vars

\* the provider refused the code of an exchange for a stored partner
C7_Witness ==
    /\ last.method = "POST" /\ last.token_sent
    /\ last.token_response.status_code = 400
    /\ last.resp.status = 400
    /\ last.resp.details = "invalid_grant"
    /\ RowsOf(store, last.selling_partner_id) # {}

\* the step in which a request arrives; the request is last' when it is
\* answered in that step, else it is one of inflight'
Arrival == now' = now + 1
Arrived(req) == req.received = now + 1

\* C8: a GET or POST /callback rejected for a validation error (state
\* mismatch or missing required field) mutates nothing: the table and every
\* session's bound nonce are as before the request, the request sent no
\* token request and no request was put in flight.
C8_RejectionMutatesNothing ==
    [][/\ Arrival /\ Arrived(last') /\ IsCallback(last')
       /\ last'.resp.error \in {StateError(last'), MissingError(last')}
       => /\ store' = store
          /\ session' = session
          /\ inflight' = inflight
          /\ ~last'.token_sent]_vars

\* a POST with a wrong state was rejected in a session with a bound nonce
\* while the table holds a record
C8_Witness ==
    /\ IsCallback(last) /\ last.method = "POST"
    /\ last.resp.error = StateError(last)
    /\ last.session_state \in Nonces
    /\ session[last.sess] = last.session_state
    /\ Len(store) > 0

\* a POST /callback that was validated against the bound nonce and whose
\* token exchange stored a credential
Exchanged(req) ==
    /\ IsCallback(req) /\ req.token_sent /\ req.resp = PostSuccess
    /\ req.state = req.session_state

\* C9: the bound nonce is single-use: once a callback of a session was
\* validated against it and consumed it in a token exchange, the next
\* callback of that session carrying the same nonce, with no /start-oauth in
\* between, starts no second token exchange: one issued nonce never
\* authorizes two.
C9_NonceSingleUse ==
    [][/\ Exchanged(last) /\ Arrival
       => \A r \in 1..MaxInFlight :
             ~ /\ Arrived(inflight'[r])
               /\ inflight'[r].token_sent
               /\ inflight'[r].sess = last.sess
               /\ inflight'[r].state = last.state]_vars

\* C10: a /start-oauth that returns a redirect leaves the session bound to
\* the state embedded in the redirect URL, and nothing else rebinds a
\* session, so the bound nonce is the state of the session's latest redirect;
\* a callback that carries an issued nonce other than the bound one (an
\* earlier nonce of the session among them) gets the state error.
C10_LatestNonceBound ==
    [][/\ /\ Arrived(last') /\ last'.route = "/start-oauth"
          /\ last'.resp.status = 302
          => session'[last'.sess] = last'.resp.location_state
       /\ \A s \in Sessions :
             session'[s] # session[s]
             => /\ Arrived(last') /\ last'.route = "/start-oauth"
                /\ last'.sess = s
                /\ last'.resp = Redirect(session'[s])
       /\ /\ Arrived(last') /\ IsCallback(last')
          /\ last'.state \in {Uuid(k) : k \in 1..uuids}
          /\ last'.state # session[last'.sess]
          => last'.resp = JsonError(StateError(last'), 400)]_vars

\* the session was started twice (the other session never was) and a
\* callback carrying its first nonce got the state error
C10_Witness ==
    /\ IsCallback(last)
    /\ session[last.sess] = Uuid(2) /\ last.state = Uuid(1)
    /\ \A s \in Sessions \ {last.sess} : session[s] = None
    /\ last.resp = JsonError(StateError(last), 400)

\* the same call shape and parameters in the same session
SameRequest(a, b) ==
    /\ a.route = b.route /\ a.method = b.method /\ a.sess = b.sess
    /\ a.parsed = b.parsed /\ a.auth_code = b.auth_code /\ a.state = b.state
    /\ a.selling_partner_id = b.selling_partner_id

\* C11: GET /callback has no side effects: it sends no token request, puts
\* nothing in flight and leaves the table and every session's nonce as they
\* were; when the state equals the bound nonce and code, state and partner
\* id are all present it answers 200 with auth_code = the supplied code;
\* and repeating the request in the same state gives the same response.
C11_GetCallbackReadOnly ==
    [][/\ Arrival /\ Arrived(last') /\ IsCallback(last')
       /\ last'.method = "GET"
       => /\ store' = store /\ session' = session /\ inflight' = inflight
          /\ ~last'.token_sent /\ last'.token_posts = 0
          /\ /\ last'.state = session[last'.sess]
             /\ ~Falsy(last'.auth_code) /\ ~Falsy(last'.state)
             /\ ~Falsy(last'.selling_partner_id)
             => /\ last'.resp.status = 200
                /\ last'.resp.auth_code = last'.auth_code
                /\ last'.resp.error = None
          /\ SameRequest(last, last') => last'.resp = last.resp]_vars

\* a GET with the bound nonce and all fields was answered with its code
\* while a credential is stored
C11_Witness ==
    /\ IsCallback(last) /\ last.method = "GET"
    /\ last.state = session[last.sess] /\ last.state \in Nonces
    /\ last.resp.status = 200 /\ last.resp.auth_code = "abc"
    /\ Len(store) > 0

Statuses == {200, 302, 400, 500}

\* C12: every failure inside a route is turned into a response at the route
\* boundary: each answered request carries one response with status 200,
\* 302, 400 or 500, a 400 or 500 body has an 'error' key, a request still in
\* flight has no response yet and is not the one answered last, and after
\* any failure (a failed store operation, an unreadable body) every route
\* still takes requests.
C12_FailuresCaughtAtBoundary ==
    /\ \A req \in Answered :
          /\ req.pc = "done"
          /\ req.resp.status \in Statuses
          /\ req.resp.status \in {400, 500} => req.resp.error # None
    /\ \A req \in InFlight :
          req.resp = NoResp /\ req.received # last.received
    /\ now < MaxRequests
       => \A s \in Sessions :
             /\ uuids < MaxNonce \/ ~secret_key => ENABLED StartOAuth(s)
             /\ ENABLED CallbackGet(s, "abc", "forged", "P1")
             /\ ENABLED CallbackPost(s, "abc", "forged", "P1")
             /\ ENABLED CallbackPostBadBody(s)
             /\ ENABLED CallbackHead(s)
             /\ ENABLED Webhook(s, TRUE)

\* the provider answered 200 with a JSON body that has no refresh_token
NoTokenField(req) ==
    /\ req.token_response.status_code = 200 /\ req.token_response.is_json
    /\ req.token_response.refresh_token = None

\* C13 as claimed: when the provider answers 200 without a refresh_token the
\* exchange does not raise: unless the database is down, a record for the
\* partner is stored with an empty or placeholder refresh_token and the
\* request completes with 200 'Authorization successful'.
C13_MissingTokenStored ==
    [][\A r \in 1..MaxInFlight :
         /\ CommitStep(r) /\ NoTokenField(inflight[r])
         /\ last'.resp # JsonError("An error occurred: OperationalError", 500)
         => /\ last'.resp.status = 200
            /\ last'.resp.message = "Authorization successful"
            /\ \E i \in RowsOf(store', inflight[r].selling_partner_id) :
                  Falsy(store'[i].refresh_token)]_vars

\* C13 as amended: when the provider answers 200 without a refresh_token
\* nothing is stored: the commit of the insert or of the overwrite is
\* refused (refresh_token is NOT NULL), the table is unchanged, no row ever
\* holds a missing token, and the request completes with 500 and an error.
C13_MissingTokenRefused ==
    [][/\ \A r \in 1..MaxInFlight :
            CommitStep(r) /\ NoTokenField(inflight[r])
            => /\ store' = store
               /\ last'.received = inflight[r].received
               /\ last'.resp.status = 500
               /\ last'.resp.error # None
       /\ \A i \in 1..Len(store') : store'[i].refresh_token # None]_vars

\* an exchange whose 200 answer had no refresh_token was answered 500 and
\* the partner's earlier record is as it was
C13_Witness ==
    /\ last.method = "POST" /\ NoTokenField(last)
    /\ last.existing_seller.id # 0
    /\ last.resp = JsonError("An error occurred: IntegrityError", 500)
    /\ store[last.existing_seller.id].refresh_token
           = last.existing_seller.refresh_token

\* a POST /callback that passes both validation checks
PassesValidation(req) ==
    /\ req.state = req.session_state
    /\ ~Falsy(req.auth_code) /\ ~Falsy(req.state)
    /\ ~Falsy(req.selling_partner_id)

\* C14: nothing is retried: a request makes at most one token request,
\* exactly one if it is a POST /callback that passed both checks and none
\* otherwise; the step in which the exchange or the store write fails
\* answers the request with 400 or 500 and takes it out of flight, and no
\* request in flight ever goes back to an earlier step.
C14_NoRetry ==
    [][/\ \A req \in ({last'} \cup {inflight'[r] : r \in 1..MaxInFlight})
                        \ {NoRequest} :
             /\ req.token_posts <= 1
             /\ req.token_posts = 1
                <=> /\ IsCallback(req) /\ req.method = "POST"
                    /\ PassesValidation(req)
       /\ \A r \in 1..MaxInFlight :
             /\ inflight[r].pc = "token"
                => \/ inflight'[r] = inflight[r]
                   \/ inflight'[r].pc = "commit"
                   \/ /\ inflight'[r].pc = "idle"
                      /\ last'.received = inflight[r].received
                      /\ last'.resp.status \in {400, 500}
             /\ inflight[r].pc = "commit"
                => \/ inflight'[r] = inflight[r]
                   \/ /\ inflight'[r].pc = "idle"
                      /\ last'.received = inflight[r].received
                      /\ last'.resp.status \in {200, 500}
                      /\ last'.resp.status = 500 => store' = store]_vars

\* the transport failed on the single token request of an exchange and the
\* request was answered 500
C14_Witness ==
    /\ last.method = "POST" /\ last.token_response.raised
    /\ last.token_posts = 1
    /\ last.resp = JsonError("An error occurred: ConnectionError", 500)
    /\ \A r \in 1..MaxInFlight : inflight[r].received # last.received

\* C15: a POST /callback that has begun the token exchange runs to
\* completion or failure: if the provider eventually answers and the store
\* eventually commits or errors, the request (the k-th received) is
\* eventually answered with 200, 400 or 500; it is never cancelled and never
\* waits forever.
C15_ExchangeTerminates ==
    \A k \in 1..MaxRequests :
        (\E r \in 1..MaxInFlight :
            inflight[r].received = k /\ inflight[r].token_sent)
        ~> /\ last.received = k /\ last.pc = "done" /\ last.token_sent
           /\ last.resp.status \in {200, 400, 500}

\* two exchanges raced: one stored its credential, the other's insert was
\* refused, and both have been answered
C15_Witness ==
    /\ last.method = "POST" /\ last.token_sent /\ last.pc = "done"
    /\ last.resp.status = 500 /\ last.existing_seller.id = 0
    /\ RowsOf(store, last.selling_partner_id) # {}
    /\ \A r \in 1..MaxInFlight : inflight[r].pc = "idle"

\* C16: the pending nonce is per session: no two sessions are bound to the
\* same nonce, and a callback made in one session that carries the nonce
\* bound in another session got the state error and started no exchange,
\* whatever the order of the start and callback requests of the sessions.
C16_NoncePerSession ==
    /\ \A a, b \in Sessions :
          session[a] = session[b] /\ session[a] # None => a = b
    /\ \A req \in Answered \cup InFlight :
          /\ IsCallback(req) /\ req.state # None
          /\ \E a \in Sessions \ {req.sess} : session[a] = req.state
          => /\ req.pc = "done"
             /\ req.resp.status = 400
             /\ req.resp.error = StateError(req)
             /\ ~req.token_sent

\* both sessions hold a nonce and a complete POST of one session carrying
\* the nonce of the other was rejected
C16_Witness ==
    /\ IsCallback(last) /\ last.method = "POST"
    /\ last.session_state \in Nonces /\ session[last.sess] = last.session_state
    /\ \E a \in Sessions \ {last.sess} : session[a] = last.state
    /\ ~Falsy(last.auth_code) /\ ~Falsy(last.selling_partner_id)
    /\ last.resp.status = 400

\* C17: refresh_access_token returns the access_token of the provider's
\* answer when the status is 200 (and the body parses), returns None on
\* every other status, on a transport error and on a body that does not
\* parse, and never raises to its caller.
C17_RefreshReturnsTokenOrNone ==
    refresh_call.pc = "done"
    => LET tr == refresh_call.response
       IN  /\ ~refresh_call.raised
           /\ ~tr.raised /\ tr.status_code = 200 /\ tr.is_json
              => refresh_call.value = tr.access_token
           /\ tr.raised \/ tr.status_code # 200 \/ ~tr.is_json
              => refresh_call.value = None

\* the provider answered 502 with a body that is no JSON: None was returned
C17_Witness ==
    /\ refresh_call.pc = "done" /\ refresh_call.refresh_token = "RT1"
    /\ refresh_call.response.status_code = 502
    /\ ~refresh_call.response.is_json
    /\ ~refresh_call.raised /\ refresh_call.value = None

\* C18: every write of the table is the commit of a POST /callback that
\* carried a non-empty state equal to the nonce bound in its session, a
\* non-empty code and a non-empty partner id P, and got a 200 answer whose
\* refresh_token was T: the write leaves a row {P, T} and touches no other
\* row.  No GET /callback, /webhook, /start-oauth or rejected request writes.
C18_StoredCredentialProvenance ==
    [][store' # store
       => \E r \in 1..MaxInFlight :
             LET req == inflight[r]
             IN  /\ CommitStep(r)
                 /\ req.route = "/callback" /\ req.method = "POST"
                 /\ req.state = req.session_state /\ ~Falsy(req.state)
                 /\ ~Falsy(req.auth_code)
                 /\ ~Falsy(req.selling_partner_id)
                 /\ req.token_response.status_code = 200
                 /\ req.token_response.refresh_token # None
                 /\ \E i \in 1..Len(store') :
                       /\ store'[i].selling_partner_id = req.selling_partner_id
                       /\ store'[i].refresh_token =
                              req.token_response.refresh_token
                       /\ \A j \in (1..Len(store')) \ {i} :
                             j <= Len(store) /\ store'[j] = store[j]]_vars

\* a stored record and the accepted exchange that wrote it
C18_Witness ==
    /\ last.method = "POST" /\ last.resp.status = 200
    /\ last.state \in Nonces /\ last.state = last.session_state
    /\ \E i \in 1..Len(store) :
          /\ store[i].selling_partner_id = last.selling_partner_id
          /\ store[i].refresh_token = last.token_response.refresh_token
          /\ store[i].created_at >= last.received

\* C19: a successful exchange for partner P changes only P's record: the
\* rows of every other partner keep their refresh_token and created_at, no
\* row is ever deleted and no row ever changes its partner, so the set of
\* stored partner ids never shrinks.
C19_OtherRecordsUntouched ==
    [][/\ Len(store') >= Len(store)
       /\ \A i \in 1..Len(store) :
             store'[i].selling_partner_id = store[i].selling_partner_id
       /\ \A r \in 1..MaxInFlight :
             CommitStep(r)
             => \A i \in 1..Len(store) :
                   store[i].selling_partner_id # inflight[r].selling_partner_id
                   => store'[i] = store[i]]_vars

\* a second partner's credential was stored next to the first one's
C19_Witness ==
    /\ last.method = "POST" /\ last.resp.status = 200
    /\ Len(store) = 2
    /\ store[1].selling_partner_id # last.selling_partner_id
    /\ store[2].selling_partner_id = last.selling_partner_id
    /\ store[1].refresh_token # None

\* C20: only GET /start-oauth changes a session's bound nonce: every other
\* step (a GET or POST /callback accepted, rejected or failed, the
\* provider's answer, the commit, /webhook, /) leaves 'oauth_state' of every
\* session as it was, and a bound nonce is never cleared.
C20_OnlyStartBindsNonce ==
    [][/\ ~(Arrival /\ Arrived(last') /\ last'.route = "/start-oauth")
          => session' = session
       /\ \A s \in Sessions : session[s] # None => session'[s] # None]_vars

\* the provider refused the code of a validated POST: the session is still
\* bound to the nonce the POST carried
C20_Witness ==
    /\ last.method = "POST" /\ last.token_sent
    /\ last.resp.status = 400 /\ last.resp.details # None
    /\ last.state \in Nonces /\ session[last.sess] = last.state

====
